---- MODULE Spec2Model ----
(***************************************************************************)
(* State-machine model of the Whop gamification backend                    *)
(* (src/unnamed/part_000, the full server; src/server.js is the reduced    *)
(* copy of the same routes).                                               *)
(*                                                                         *)
(* Every request is a chain of database round trips.  JavaScript runs the  *)
(* code between two awaits without interruption, so one action of the      *)
(* model is one awaited query together with the synchronous code that      *)
(* follows it up to the next await.  Requests in different slots           *)
(* interleave at these points.                                             *)
(*                                                                         *)
(* The tables carry the constraints the queries themselves name: the       *)
(* upsert into user_tasks names (user_id, task_id, DATE(created_at)) as    *)
(* its conflict target, so user_tasks holds one row per such triple; the   *)
(* inserts into user_achievements and user_rewards are plain INSERTs and   *)
(* add a row each time they run.                                           *)
(***************************************************************************)
EXTENDS Integers, Sequences, FiniteSets, TLC

VARIABLES
    now,               \* the clock (NOW(), new Date()), in ticks
    users,             \* table users: id -> row
    user_tasks,        \* table user_tasks: set of <<user, task, day>>
    user_achievements, \* table user_achievements: <<user, achievement>> -> number of rows
    user_rewards,      \* table user_rewards: <<user, reward>> -> number of rows
    activity_log,      \* table activity_log: <<user, type, xp_earned>> -> number of rows
    req,               \* the requests in flight, one per slot
    pre,               \* history: the tables as they were when the slot's request began
    awards,            \* history: awardXP write-backs, <<user, cause, id, day>> -> number
    nreq,              \* history: number of requests started
    nticks             \* history: number of clock ticks taken

vars == <<now, users, user_tasks, user_achievements, user_rewards,
          activity_log, req, pre, awards, nreq, nticks>>

db == <<users, user_tasks, user_achievements, user_rewards, activity_log>>

-----------------------------------------------------------------------------
(* Bounds of the model *)

NSlots == 2        \* requests that can be in flight together
MaxReqs == 2       \* requests started in one run of interleaved requests
MaxSeqReqs == 3    \* requests started in one run of requests served one at a time
MaxTicks == 2      \* clock ticks taken in one run
MaxMsgs == 51      \* requests started in one run of the message scenario

(* The clock counts half days (12 hours), so a day of 1000*60*60*24 ms is  *)
(* two ticks.                                                              *)
TicksPerDay == 2

-----------------------------------------------------------------------------
(* Program constants *)

BaseXP == 100
MessageXP == 10
PostXP == 50
ReactionXP == 5
LevelUpBonus == 1000
FirstSteps == 1
FirstStepsXP == 100
Chatterbox == 2
ChatterboxXP == 250
WeekWarrior == 3
WeekWarriorXP == 500
ContentKing == 5
ContentKingXP == 750
MonthMaster == 6
MonthMasterXP == 1000
MessageThreshold == 50
PostThreshold == 25
WeekStreak == 7
MonthStreak == 30

AchIds == {FirstSteps, Chatterbox, WeekWarrior, ContentKing, MonthMaster}

-----------------------------------------------------------------------------
(* Catalogues and identities: rows of daily_tasks and rewards, user ids,   *)
(* external (Whop) ids.  The catalogues are read-only at request time.     *)

UserIds == {1, 2}
WhopIds == {"w1", "w2"}
TaskIds == {1, 2}
TaskInputs == TaskIds \cup {9}
RewardIds == {1, 2}
RewardInputs == RewardIds \cup {9}

xp_reward(t) == 80
cost(rw) == IF rw = 1 THEN 500 ELSE 300
active(rw) == rw \in RewardIds

EventTypes == {"message.created", "post.created", "reaction.added",
               "member.joined", "other"}

-----------------------------------------------------------------------------
(* Pure helpers *)

RECURSIVE Pow(_, _)
Pow(b, e) == IF e = 0 THEN 1 ELSE b * Pow(b, e - 1)

\* Math.floor(100 * Math.pow(1.5, level - 1)); 1.5^n = 3^n / 2^n
calculateXPForLevel(level) == (BaseXP * Pow(3, level - 1)) \div Pow(2, level - 1)

\* DATE(ts): the calendar day of a timestamp
DateOf(t) == t \div TicksPerDay

\* Math.floor((today - lastActivity) / (1000 * 60 * 60 * 24))
daysDiff(today, lastActivity) == (today - lastActivity) \div TicksPerDay

\* INSERT of one row under key, in a table kept as a number of rows per key
Insert(table, key) == [table EXCEPT ![key] = @ + 1]

\* the run begins four days after the epoch (tick 0, what new Date(null) gives)
StartTick == 4 * TicksPerDay
Days == 0 .. DateOf(StartTick + MaxTicks)

Bonuses == {FirstStepsXP, ChatterboxXP, WeekWarriorXP, ContentKingXP, MonthMasterXP}
LogKeys == {<<"level_up", LevelUpBonus>>, <<"message", MessageXP>>, <<"post", PostXP>>}
           \cup ({"achievement"} \X Bonuses)
AwardKeys == ({"task"} \X TaskIds \X Days) \cup ({"achievement"} \X AchIds \X {0})
             \cup ({"message.created", "post.created", "reaction.added"} \X {0} \X {0})

RECURSIVE SumOver(_, _)
SumOver(f, S) == IF S = {} THEN 0
                 ELSE LET k == CHOOSE x \in S : TRUE IN f[k] + SumOver(f, S \ {k})

\* SELECT COUNT(*) FROM activity_log WHERE user_id = u AND activity_type = type
CountLog(u, type) == SumOver(activity_log, {k \in DOMAIN activity_log : k[1] = u /\ k[2] = type})

\* logActivity(userId, activityType, description, xpEarned)
logActivity(log, u, type, xpEarned) == Insert(log, <<u, type, xpEarned>>)

NoUser == [whop |-> "", level |-> 0, xp |-> 0, total_points |-> 0, streak |-> 0,
           last_activity |-> 0]
Exists(u) == users[u].level > 0

\* INSERT INTO users ... VALUES (whop, ..., 1, 0, 0, 0): last_activity is NULL,
\* which new Date() reads as the epoch
NewUser(w) == [whop |-> w, level |-> 1, xp |-> 0, total_points |-> 0, streak |-> 0,
               last_activity |-> 0]

-----------------------------------------------------------------------------
(* Requests *)

Slots == 1 .. NSlots

Idle == [kind |-> "idle", pc |-> "idle", status |-> 0, uid |-> 0, arg |-> 0, whop |-> "",
         ev |-> "", xp |-> 0, ret |-> "", ach |-> 0, cause |-> <<"", 0, 0>>,
         newLevel |-> 0, remainingXP |-> 0, newPoints |-> 0, leveledUp |-> FALSE,
         newStreak |-> 0]

Free(r) == req[r].pc \in {"idle", "done"}
AllFree == \A r \in Slots : Free(r)

\* a request enters slot r
Begin(r, rec) ==
    /\ Free(r)
    /\ req' = [req EXCEPT ![r] = rec]
    /\ pre' = [pre EXCEPT ![r] = db]
    /\ nreq' = nreq + 1
    /\ UNCHANGED <<now, db, awards, nticks>>

\* the response is sent: res.json / res.status(..).json / res.redirect
Respond(rec, status) == [rec EXCEPT !.pc = "done", !.status = status]

\* the call awardXP(uid, xp), returning to ret
CallAwardXP(rec, uid, xp, ret, cause) ==
    [rec EXCEPT !.pc = "axp_select", !.uid = uid, !.xp = xp, !.ret = ret, !.cause = cause]

\* the call awardAchievement(uid, ach, xp); every caller responds when it returns
CallAwardAchievement(rec, uid, ach, xp) ==
    [rec EXCEPT !.pc = "aa_select", !.uid = uid, !.ach = ach, !.xp = xp]

-----------------------------------------------------------------------------
(* awardXP *)

\* awardXP measuring newXP against the threshold of the current level
awardXPResult_CurrentLevel(user, xp) ==
    LET newXP == user.xp + xp
        newPoints == user.total_points + xp
        xpNeeded == calculateXPForLevel(user.level)
    IN  IF newXP >= xpNeeded
        THEN [newLevel |-> user.level + 1, remainingXP |-> newXP - xpNeeded,
              newPoints |-> newPoints]
        ELSE [newLevel |-> user.level, remainingXP |-> newXP, newPoints |-> newPoints]

\* awardXP crediting the 1000 of the 'level_up' entry to total_points
awardXPResult_BonusCredited(user, xp) ==
    LET newXP == user.xp + xp
        xpNeeded == calculateXPForLevel(user.level + 1)
    IN  IF newXP >= xpNeeded
        THEN [newLevel |-> user.level + 1, remainingXP |-> newXP - xpNeeded,
              newPoints |-> user.total_points + xp + LevelUpBonus]
        ELSE [newLevel |-> user.level, remainingXP |-> newXP,
              newPoints |-> user.total_points + xp]

\* lines 429-440: the level, xp and points awardXP writes back for the row it read
awardXPResult(user, xp) ==
    LET newXP == user.xp + xp
        newPoints == user.total_points + xp
        xpNeeded == calculateXPForLevel(user.level + 1)
    IN  IF newXP >= xpNeeded
        THEN [newLevel |-> user.level + 1, remainingXP |-> newXP - xpNeeded,
              newPoints |-> newPoints]
        ELSE [newLevel |-> user.level, remainingXP |-> newXP, newPoints |-> newPoints]

\* SELECT level, xp, total_points, and the computation up to the next await
AwardXPSelect(r) ==
    /\ req[r].pc = "axp_select"
    /\ LET user == users[req[r].uid]
           res == awardXPResult(user, req[r].xp)
           up == res.newLevel > user.level
       IN  req' = [req EXCEPT ![r] = [@ EXCEPT !.newLevel = res.newLevel,
                                               !.remainingXP = res.remainingXP,
                                               !.newPoints = res.newPoints,
                                               !.leveledUp = up,
                                               !.pc = IF up THEN "axp_log" ELSE "axp_update"]]
    /\ UNCHANGED <<now, db, pre, awards, nreq, nticks>>

\* logActivity(userId, 'level_up', ..., 1000)
AwardXPLog(r) ==
    /\ req[r].pc = "axp_log"
    /\ activity_log' = logActivity(activity_log, req[r].uid, "level_up", LevelUpBonus)
    /\ req' = [req EXCEPT ![r] = [@ EXCEPT !.pc = "axp_update"]]
    /\ UNCHANGED <<now, users, user_tasks, user_achievements, user_rewards, pre, awards,
                   nreq, nticks>>

\* awardXP writing increments relative to the stored row (SET xp = xp + $1, ...)
AwardXPUpdate_Relative(r) ==
    /\ req[r].pc = "axp_update"
    /\ LET rec == req[r]
           u == rec.uid
       IN  /\ users' = [users EXCEPT ![u] = [@ EXCEPT !.xp = @ + rec.xp,
                                                      !.total_points = @ + rec.xp]]
           /\ awards' = Insert(awards, <<u, rec.cause[1], rec.cause[2], rec.cause[3]>>)
           /\ req' = [req EXCEPT ![r] = IF rec.ret = "finish" THEN Respond(rec, 200)
                                        ELSE [rec EXCEPT !.pc = rec.ret]]
    /\ UNCHANGED <<now, user_tasks, user_achievements, user_rewards, activity_log, pre,
                   nreq, nticks>>

\* UPDATE users SET xp, level, total_points; then back to the caller
AwardXPUpdate(r) ==
    /\ req[r].pc = "axp_update"
    /\ LET rec == req[r]
           u == rec.uid
       IN  /\ users' = [users EXCEPT ![u] = [@ EXCEPT !.xp = rec.remainingXP,
                                                      !.level = rec.newLevel,
                                                      !.total_points = rec.newPoints]]
           /\ awards' = Insert(awards, <<u, rec.cause[1], rec.cause[2], rec.cause[3]>>)
           /\ req' = [req EXCEPT ![r] = IF rec.ret = "finish" THEN Respond(rec, 200)
                                        ELSE [rec EXCEPT !.pc = rec.ret]]
    /\ UNCHANGED <<now, user_tasks, user_achievements, user_rewards, activity_log, pre,
                   nreq, nticks>>

-----------------------------------------------------------------------------
(* awardAchievement *)

\* awardAchievement without its existence check
AlreadyUnlocked_Never(u, a) == FALSE

\* existing.rows.length > 0
AlreadyUnlocked(u, a) == user_achievements[<<u, a>>] > 0

\* SELECT * FROM user_achievements WHERE user_id, achievement_id; return if present
AchSelect(r) ==
    /\ req[r].pc = "aa_select"
    /\ req' = [req EXCEPT ![r] = IF AlreadyUnlocked(req[r].uid, req[r].ach)
                                 THEN Respond(@, IF @.kind = "auth" THEN 302 ELSE 200)
                                 ELSE [@ EXCEPT !.pc = "aa_insert"]]
    /\ UNCHANGED <<now, db, pre, awards, nreq, nticks>>

\* INSERT INTO user_achievements; then awardXP(userId, xp)
AchInsert(r) ==
    /\ req[r].pc = "aa_insert"
    /\ user_achievements' = Insert(user_achievements, <<req[r].uid, req[r].ach>>)
    /\ req' = [req EXCEPT ![r] = CallAwardXP(@, @.uid, @.xp, "aa_log",
                                             <<"achievement", @.ach, 0>>)]
    /\ UNCHANGED <<now, users, user_tasks, user_rewards, activity_log, pre, awards,
                   nreq, nticks>>

\* logActivity(userId, 'achievement', ..., xp); the caller then responds
AchLog(r) ==
    /\ req[r].pc = "aa_log"
    /\ activity_log' = logActivity(activity_log, req[r].uid, "achievement", req[r].xp)
    /\ req' = [req EXCEPT ![r] = Respond(@, IF @.kind = "auth" THEN 302 ELSE 200)]
    /\ UNCHANGED <<now, users, user_tasks, user_achievements, user_rewards, pre, awards,
                   nreq, nticks>>

-----------------------------------------------------------------------------
(* updateStreak *)

\* lines 483-491
NextStreak(streak, diff) ==
    IF diff = 1 THEN streak + 1
    ELSE IF diff > 1 THEN 1
    ELSE streak

\* the milestone check as a threshold instead of an equality
StreakAchievement_AtLeast(newStreak) ==
    IF newStreak >= WeekStreak THEN WeekWarrior
    ELSE IF newStreak >= MonthStreak THEN MonthMaster
    ELSE 0

\* lines 499-503: the achievement a new streak value unlocks, 0 for none
StreakAchievement(newStreak) ==
    IF newStreak = WeekStreak THEN WeekWarrior
    ELSE IF newStreak = MonthStreak THEN MonthMaster
    ELSE 0

StreakBonus(a) == IF a = WeekWarrior THEN WeekWarriorXP ELSE MonthMasterXP

\* SELECT last_activity, streak; today = new Date()
StreakSelect(r) ==
    /\ req[r].pc = "us_select"
    /\ LET user == users[req[r].uid]
       IN  req' = [req EXCEPT ![r] = [@ EXCEPT
                       !.newStreak = NextStreak(user.streak, daysDiff(now, user.last_activity)),
                       !.pc = "us_update"]]
    /\ UNCHANGED <<now, db, pre, awards, nreq, nticks>>

\* UPDATE users SET last_activity = NOW(), streak; then the milestone check
StreakUpdate(r) ==
    /\ req[r].pc = "us_update"
    /\ LET rec == req[r]
           a == StreakAchievement(rec.newStreak)
       IN  /\ users' = [users EXCEPT ![rec.uid] = [@ EXCEPT !.last_activity = now,
                                                            !.streak = rec.newStreak]]
           /\ req' = [req EXCEPT ![r] = IF a = 0 THEN Respond(rec, 200)
                                        ELSE CallAwardAchievement(rec, rec.uid, a, StreakBonus(a))]
    /\ UNCHANGED <<now, user_tasks, user_achievements, user_rewards, activity_log, pre,
                   awards, nreq, nticks>>

-----------------------------------------------------------------------------
(* POST /api/tasks/complete *)

StartTaskComplete(r, u, t) ==
    /\ Exists(u)
    /\ Begin(r, [Idle EXCEPT !.kind = "task", !.pc = "tc_task", !.uid = u, !.arg = t])

\* SELECT * FROM daily_tasks WHERE id = taskId
TaskSelect(r) ==
    /\ req[r].pc = "tc_task"
    /\ req' = [req EXCEPT ![r] = IF @.arg \in TaskIds THEN [@ EXCEPT !.pc = "tc_existing"]
                                 ELSE Respond(@, 404)]
    /\ UNCHANGED <<now, db, pre, awards, nreq, nticks>>

\* existingTask.rows.length > 0 && existingTask.rows[0].completed
CompletedToday(u, t) == <<u, t, DateOf(now)>> \in user_tasks

TaskExisting(r) ==
    /\ req[r].pc = "tc_existing"
    /\ req' = [req EXCEPT ![r] = IF CompletedToday(@.uid, @.arg) THEN Respond(@, 400)
                                 ELSE [@ EXCEPT !.pc = "tc_insert"]]
    /\ UNCHANGED <<now, db, pre, awards, nreq, nticks>>

\* INSERT INTO user_tasks ... ON CONFLICT (user_id, task_id, DATE(created_at)) DO UPDATE;
\* then awardXP(userId, task.xp_reward), then updateStreak(userId)
TaskInsert(r) ==
    /\ req[r].pc = "tc_insert"
    /\ user_tasks' = user_tasks \cup {<<req[r].uid, req[r].arg, DateOf(now)>>}
    /\ req' = [req EXCEPT ![r] = CallAwardXP(@, @.uid, xp_reward(@.arg), "us_select",
                                             <<"task", @.arg, DateOf(now)>>)]
    /\ UNCHANGED <<now, users, user_achievements, user_rewards, activity_log, pre, awards,
                   nreq, nticks>>

-----------------------------------------------------------------------------
(* POST /api/rewards/redeem *)

StartRedeem(r, u, rw) ==
    /\ Exists(u)
    /\ Begin(r, [Idle EXCEPT !.kind = "redeem", !.pc = "rd_reward", !.uid = u, !.arg = rw])

\* SELECT * FROM rewards WHERE id = rewardId AND active = true
RedeemReward(r) ==
    /\ req[r].pc = "rd_reward"
    /\ req' = [req EXCEPT ![r] = IF active(@.arg) THEN [@ EXCEPT !.pc = "rd_user"]
                                 ELSE Respond(@, 404)]
    /\ UNCHANGED <<now, db, pre, awards, nreq, nticks>>

\* the points check rejecting a user who holds exactly the cost
Insufficient_OrEqual(points, c) == points <= c

\* user.total_points < reward.cost
Insufficient(points, c) == points < c

\* SELECT total_points FROM users
RedeemUser(r) ==
    /\ req[r].pc = "rd_user"
    /\ req' = [req EXCEPT ![r] =
                   IF Insufficient(users[@.uid].total_points, cost(@.arg))
                   THEN Respond(@, 400)
                   ELSE [@ EXCEPT !.pc = "rd_deduct"]]
    /\ UNCHANGED <<now, db, pre, awards, nreq, nticks>>

\* UPDATE users SET total_points = total_points - cost
RedeemDeduct(r) ==
    /\ req[r].pc = "rd_deduct"
    /\ users' = [users EXCEPT ![req[r].uid] =
                     [@ EXCEPT !.total_points = @ - cost(req[r].arg)]]
    /\ req' = [req EXCEPT ![r] = [@ EXCEPT !.pc = "rd_insert"]]
    /\ UNCHANGED <<now, user_tasks, user_achievements, user_rewards, activity_log, pre,
                   awards, nreq, nticks>>

\* INSERT INTO user_rewards; res.json({ success: true })
RedeemInsert(r) ==
    /\ req[r].pc = "rd_insert"
    /\ user_rewards' = Insert(user_rewards, <<req[r].uid, req[r].arg>>)
    /\ req' = [req EXCEPT ![r] = Respond(@, 200)]
    /\ UNCHANGED <<now, users, user_tasks, user_achievements, activity_log, pre, awards,
                   nreq, nticks>>

-----------------------------------------------------------------------------
(* POST /webhooks/whop *)

Handled == {"message.created", "post.created", "reaction.added"}

\* the handlers with the amounts of message.created and post.created exchanged
EventXP_Exchanged(ev) ==
    IF ev = "message.created" THEN PostXP
    ELSE IF ev = "post.created" THEN MessageXP
    ELSE ReactionXP

\* the XP each handler awards
EventXP(ev) ==
    IF ev = "message.created" THEN MessageXP
    ELSE IF ev = "post.created" THEN PostXP
    ELSE ReactionXP

\* what each handler does after awardXP
EventNext(ev) ==
    IF ev = "message.created" THEN "cm_count"
    ELSE IF ev = "post.created" THEN "cp_count"
    ELSE "finish"

\* switch (event.type): the three handlers first resolve the user; member.joined
\* and the default branch touch no table and the response follows at once
StartWebhook(r, ev, w) ==
    Begin(r, IF ev \in Handled
             THEN [Idle EXCEPT !.kind = "webhook", !.pc = "wh_user", !.ev = ev, !.whop = w]
             ELSE Respond([Idle EXCEPT !.kind = "webhook", !.ev = ev, !.whop = w], 200))

\* getUserByWhopId: rows[0] of SELECT * FROM users WHERE whop_user_id (no ORDER BY)
WebhookUser(r) ==
    /\ req[r].pc = "wh_user"
    /\ LET rec == req[r]
           found == {u \in UserIds : Exists(u) /\ users[u].whop = rec.whop}
       IN  IF found = {} THEN req' = [req EXCEPT ![r] = Respond(rec, 200)]
           ELSE \E u \in found :
                    req' = [req EXCEPT ![r] = CallAwardXP(rec, u, EventXP(rec.ev),
                                                          EventNext(rec.ev), <<rec.ev, 0, 0>>)]
    /\ UNCHANGED <<now, db, pre, awards, nreq, nticks>>

\* count.rows[0].count >= 50
MessageUnlocks(count) == count >= MessageThreshold

\* checkMessageAchievements
MessageCount(r) ==
    /\ req[r].pc = "cm_count"
    /\ req' = [req EXCEPT ![r] = IF MessageUnlocks(CountLog(@.uid, "message"))
                                 THEN CallAwardAchievement(@, @.uid, Chatterbox, ChatterboxXP)
                                 ELSE Respond(@, 200)]
    /\ UNCHANGED <<now, db, pre, awards, nreq, nticks>>

\* count.rows[0].count >= 25
PostUnlocks(count) == count >= PostThreshold

\* checkPostAchievements
PostCount(r) ==
    /\ req[r].pc = "cp_count"
    /\ req' = [req EXCEPT ![r] = IF PostUnlocks(CountLog(@.uid, "post"))
                                 THEN CallAwardAchievement(@, @.uid, ContentKing, ContentKingXP)
                                 ELSE Respond(@, 200)]
    /\ UNCHANGED <<now, db, pre, awards, nreq, nticks>>

-----------------------------------------------------------------------------
(* GET /auth/callback *)

\* each callback may insert one row; ids are a serial
StartAuth(r, w) ==
    /\ Cardinality({u \in UserIds : Exists(u)})
         + Cardinality({s \in Slots : req[s].kind = "auth" /\ ~Free(s)})
           < Cardinality(UserIds)
    /\ Begin(r, [Idle EXCEPT !.kind = "auth", !.pc = "au_select", !.whop = w])

\* SELECT * FROM users WHERE whop_user_id
AuthSelect(r) ==
    /\ req[r].pc = "au_select"
    /\ LET found == {u \in UserIds : Exists(u) /\ users[u].whop = req[r].whop}
       IN  req' = [req EXCEPT ![r] = IF found = {} THEN [@ EXCEPT !.pc = "au_insert"]
                                     ELSE [@ EXCEPT !.pc = "au_tokens",
                                                    !.uid = CHOOSE u \in found : TRUE]]
    /\ UNCHANGED <<now, db, pre, awards, nreq, nticks>>

\* INSERT INTO users ... RETURNING *; then awardAchievement(id, 1, 100)
AuthInsert(r) ==
    /\ req[r].pc = "au_insert"
    /\ LET free == {u \in UserIds : ~Exists(u)}
           id == CHOOSE u \in free : \A v \in free : u <= v
       IN  /\ free # {}
           /\ users' = [users EXCEPT ![id] = NewUser(req[r].whop)]
           /\ req' = [req EXCEPT ![r] = CallAwardAchievement(@, id, FirstSteps, FirstStepsXP)]
    /\ UNCHANGED <<now, user_tasks, user_achievements, user_rewards, activity_log, pre,
                   awards, nreq, nticks>>

\* UPDATE users SET access_token, refresh_token, last_login; res.redirect
AuthTokens(r) ==
    /\ req[r].pc = "au_tokens"
    /\ req' = [req EXCEPT ![r] = Respond(@, 302)]
    /\ UNCHANGED <<now, db, pre, awards, nreq, nticks>>

-----------------------------------------------------------------------------
(* The clock *)

Tick ==
    /\ nticks < MaxTicks
    /\ now' = now + 1
    /\ nticks' = nticks + 1
    /\ UNCHANGED <<db, req, pre, awards, nreq>>

-----------------------------------------------------------------------------
(* Initial states: the server starts on a database that holds the          *)
(* catalogues and the users registered so far.  A stored user is described *)
(* by the XP it was awarded in small steps (S), the points it spent, its   *)
(* streak and its last activity.                                           *)

RECURSIVE Roll(_, _)
Roll(level, xp) ==
    IF xp >= calculateXPForLevel(level + 1)
    THEN Roll(level + 1, xp - calculateXPForLevel(level + 1))
    ELSE <<level, xp>>

StoredUser(sd) ==
    [whop |-> "w1", level |-> Roll(1, sd.S)[1], xp |-> Roll(1, sd.S)[2],
     total_points |-> sd.S - sd.spent, streak |-> sd.streak, last_activity |-> sd.last]

\* the achievements a stored user holds
Holds(sd, a) == a \in sd.held

BonusOf(a) ==
    IF a = FirstSteps THEN FirstStepsXP
    ELSE IF a = Chatterbox THEN ChatterboxXP
    ELSE IF a = WeekWarrior THEN WeekWarriorXP
    ELSE IF a = ContentKing THEN ContentKingXP
    ELSE MonthMasterXP

InitFrom(seeds) ==
    /\ now = StartTick
    /\ \E sd \in seeds :
         /\ users = [u \in UserIds |-> IF u = 1 /\ sd.registered THEN StoredUser(sd) ELSE NoUser]
         /\ user_achievements =
                [k \in UserIds \X AchIds |->
                    IF k[1] = 1 /\ sd.registered /\ Holds(sd, k[2]) THEN 1 ELSE 0]
         /\ activity_log =
                [k \in {<<u, l[1], l[2]>> : u \in UserIds, l \in LogKeys} |->
                    IF k[1] = 1 /\ sd.registered
                    THEN IF k[2] = "level_up" THEN Roll(1, sd.S)[1] - 1
                         ELSE IF k[2] = "achievement"
                                 /\ \E a \in AchIds : Holds(sd, a) /\ BonusOf(a) = k[3]
                              THEN 1 ELSE 0
                    ELSE 0]
         /\ awards =
                [k \in {<<u, c[1], c[2], c[3]>> : u \in UserIds, c \in AwardKeys} |->
                    IF k[1] = 1 /\ sd.registered /\ k[2] = "achievement" /\ Holds(sd, k[3])
                    THEN 1 ELSE 0]
    /\ user_tasks = {}
    /\ user_rewards = [k \in UserIds \X RewardIds |-> 0]
    /\ req = [r \in Slots |-> Idle]
    /\ pre = [r \in Slots |-> db]
    /\ nreq = 0
    /\ nticks = 0

Seed(reg, S, spent, streak, last, held) ==
    [registered |-> reg, S |-> S, spent |-> spent, streak |-> streak, last |-> last,
     held |-> held]

Yesterday == StartTick - TicksPerDay

\* no user yet; a user just inserted (the reduced server's login stops there);
\* users with points to spend; users one day short of a streak milestone, the
\* last activity 24 or 12 hours ago; a user whose streak was reset after it had
\* passed 7 and is at 6 again
Seeds == {Seed(FALSE, 0, 0, 0, 0, {}),
          Seed(TRUE, 0, 0, 0, 0, {}),
          Seed(TRUE, 1000, 0, 0, 0, {FirstSteps}),
          Seed(TRUE, 1000, 700, 0, 0, {FirstSteps}),
          Seed(TRUE, 250, 0, 6, Yesterday, {FirstSteps}),
          Seed(TRUE, 250, 0, 6, StartTick - 1, {FirstSteps}),
          Seed(TRUE, 1000, 0, 6, Yesterday, {FirstSteps, WeekWarrior}),
          Seed(TRUE, 1000, 0, 29, Yesterday, {FirstSteps, WeekWarrior})}

Init == InitFrom(Seeds)

-----------------------------------------------------------------------------
(* Specifications *)

Step(r) ==
    \/ AwardXPSelect(r) \/ AwardXPLog(r) \/ AwardXPUpdate(r)
    \/ AchSelect(r) \/ AchInsert(r) \/ AchLog(r)
    \/ StreakSelect(r) \/ StreakUpdate(r)
    \/ TaskSelect(r) \/ TaskExisting(r) \/ TaskInsert(r)
    \/ RedeemReward(r) \/ RedeemUser(r) \/ RedeemDeduct(r) \/ RedeemInsert(r)
    \/ WebhookUser(r) \/ MessageCount(r) \/ PostCount(r)
    \/ AuthSelect(r) \/ AuthInsert(r) \/ AuthTokens(r)

Start(r) ==
    \/ \E u \in UserIds, t \in TaskInputs : StartTaskComplete(r, u, t)
    \/ \E u \in UserIds, rw \in RewardInputs : StartRedeem(r, u, rw)
    \/ \E ev \in EventTypes, w \in WhopIds : StartWebhook(r, ev, w)
    \/ \E w \in WhopIds : StartAuth(r, w)

\* requests arrive at any time and interleave
Next ==
    \/ \E r \in Slots : nreq < MaxReqs /\ Start(r)
    \/ \E r \in Slots : Step(r)
    \/ Tick

Spec == Init /\ [][Next]_vars

\* one request at a time: a request arrives only when none is in flight
SeqNext ==
    \/ (AllFree /\ nreq < MaxSeqReqs /\ Start(1))
    \/ Step(1)
    \/ (AllFree /\ Tick)

SeqSpec == Init /\ [][SeqNext]_vars

\* the message scenario: a user logs in and message.created events for it are
\* delivered one after another
MsgInit == InitFrom({Seed(FALSE, 0, 0, 0, 0, {})})

MsgStep(r) ==
    \/ WebhookUser(r) \/ MessageCount(r)
    \/ AwardXPSelect(r) \/ AwardXPLog(r) \/ AwardXPUpdate(r)
    \/ AchSelect(r) \/ AchInsert(r) \/ AchLog(r)
    \/ AuthSelect(r) \/ AuthInsert(r) \/ AuthTokens(r)

MsgNext ==
    \/ (AllFree /\ nreq < MaxMsgs /\ StartWebhook(1, "message.created", "w1"))
    \/ (AllFree /\ nreq < MaxMsgs /\ StartAuth(1, "w1"))
    \/ MsgStep(1)

MsgSpec == MsgInit /\ [][MsgNext]_vars

-----------------------------------------------------------------------------
(* Properties.  pre[r] holds the tables as the request of slot r found     *)
(* them; when requests are served one at a time (SeqSpec) the difference   *)
(* between pre[1] and the tables is what the finished request did.         *)

Done(r, kind) == req[r].pc = "done" /\ req[r].kind = kind
preUsers(r) == pre[r][1]
preTasks(r) == pre[r][2]
preAchievements(r) == pre[r][3]
preRewards(r) == pre[r][4]
preLog(r) == pre[r][5]

\* C1: every stored user's xp is strictly below the XP required for the level
\* after its own, calculateXPForLevel(level + 1).
C1_XpBelowNextLevel ==
    \A u \in UserIds : Exists(u) => users[u].xp < calculateXPForLevel(users[u].level + 1)

\* C2: a redemption of an active reward served alone succeeds (200) iff the
\* points P the user held are at least the cost C; then total_points is P - C and
\* one user_rewards row is added; otherwise it is rejected (400), total_points
\* stays P and no row is added.
C2_RedeemIffEnoughPoints ==
    (Done(1, "redeem") /\ active(req[1].arg)) =>
        LET u == req[1].uid
            rw == req[1].arg
            P == preUsers(1)[u].total_points
            C == cost(rw)
        IN  /\ (req[1].status = 200) <=> (P >= C)
            /\ req[1].status = 200 =>
                   /\ users[u].total_points = P - C
                   /\ user_rewards = [preRewards(1) EXCEPT ![<<u, rw>>] = @ + 1]
            /\ req[1].status # 200 =>
                   /\ req[1].status = 400
                   /\ users = preUsers(1)
                   /\ user_rewards = preRewards(1)

\* a redemption that succeeded with points to spare
C2_Witness ==
    /\ Done(1, "redeem")
    /\ req[1].status = 200
    /\ preUsers(1)[req[1].uid].total_points > cost(req[1].arg)
    /\ user_rewards[<<req[1].uid, req[1].arg>>] = 1

\* C3: no user's total_points is ever negative, whatever the interleaving of
\* redemptions and awardXP calls.
C3_PointsNeverNegative ==
    \A u \in UserIds : users[u].total_points >= 0

\* C4: whatever the interleaving, there is at most one user_achievements row
\* per (user, achievement) and its bonus was credited at most once.
C4_AchievementAtMostOnce ==
    \A u \in UserIds, a \in AchIds :
        /\ user_achievements[<<u, a>>] <= 1
        /\ awards[<<u, "achievement", a, 0>>] <= 1

\* the XP a request awards besides an achievement bonus
OwnXP(rec) ==
    IF rec.kind = "task" THEN xp_reward(rec.arg)
    ELSE IF rec.kind = "webhook" THEN EventXP(rec.ev)
    ELSE 0

\* C5: with requests served one at a time, a call of awardAchievement that
\* finds the (user, achievement) row changes nothing: there is still one row, the
\* bonus is not credited again and no 'achievement' entry is logged; a call that
\* finds none inserts one row, credits the bonus once and logs one entry.
C5_AwardAchievementIdempotent ==
    (req[1].pc = "done" /\ req[1].ach # 0) =>
        LET u == req[1].uid
            a == req[1].ach
            had == preAchievements(1)[<<u, a>>]
            P == preUsers(1)[u].total_points
            key == <<u, "achievement", BonusOf(a)>>
        IN  /\ user_achievements[<<u, a>>] = 1
            /\ had >= 1 =>
                   /\ users[u].total_points = P + OwnXP(req[1])
                   /\ activity_log[key] = preLog(1)[key]
                   /\ awards[<<u, "achievement", a, 0>>] = 1
            /\ had = 0 =>
                   /\ users[u].total_points = P + OwnXP(req[1]) + BonusOf(a)
                   /\ activity_log[key] = preLog(1)[key] + 1
                   /\ awards[<<u, "achievement", a, 0>>] = 1

\* awardAchievement called again, by the second task completed on the day the
\* streak is 7, for a user that did not hold Week Warrior at the start of the day
C5_Witness ==
    /\ req[1].pc = "done"
    /\ req[1].ach = WeekWarrior
    /\ preAchievements(1)[<<req[1].uid, WeekWarrior>>] = 1
    /\ users[req[1].uid].total_points = 250 + 2 * 80 + WeekWarriorXP
    /\ Cardinality(user_tasks) = 2

\* C6: once 50 message.created events were handled for a user, the user holds
\* Chatterbox, unlocked once (one row, the 250 bonus credited once).
C6_FiftiethMessageUnlocksChatterbox ==
    \A u \in UserIds :
        (AllFree /\ awards[<<u, "message.created", 0, 0>>] >= MessageThreshold) =>
            /\ user_achievements[<<u, Chatterbox>>] = 1
            /\ awards[<<u, "achievement", Chatterbox, 0>>] = 1

\* C7: the XP reward of a task is awarded at most once per (user, task, day).
C7_TaskRewardOncePerDay ==
    \A u \in UserIds, t \in TaskIds, d \in Days : awards[<<u, "task", t, d>>] <= 1

\* C8 as stated: an 80-XP task takes a user at level 1, xp 0 to level 1, xp 80
\* without a level-up, and a user at level 1, xp 80 to level 2, xp 60.
C8_SecondTaskLeavesSixty ==
    (Done(1, "task") /\ req[1].status = 200 /\ req[1].ach = 0) =>
        LET u == req[1].uid
            p == preUsers(1)[u]
        IN  /\ (p.level = 1 /\ p.xp = 0) =>
                   users[u].level = 1 /\ users[u].xp = 80 /\ ~req[1].leveledUp
            /\ (p.level = 1 /\ p.xp = 80) =>
                   users[u].level = 2 /\ users[u].xp = 60 /\ req[1].leveledUp

\* C8, amended: an 80-XP task takes a user at level 1, xp 0 to level 1, xp 80
\* without a level-up, and a user at level 1, xp 80 to level 2, xp 10: the
\* threshold that ends level 1 is calculateXPForLevel(2) = 150.
C8_SecondTaskLeavesTen ==
    (Done(1, "task") /\ req[1].status = 200 /\ req[1].ach = 0) =>
        LET u == req[1].uid
            p == preUsers(1)[u]
        IN  /\ (p.level = 1 /\ p.xp = 0) =>
                   users[u].level = 1 /\ users[u].xp = 80 /\ ~req[1].leveledUp
            /\ (p.level = 1 /\ p.xp = 80) =>
                   users[u].level = 2 /\ users[u].xp = 10 /\ req[1].leveledUp

\* the second 80-XP task of a user that began at level 1, xp 0
C8_Witness ==
    /\ Done(1, "task")
    /\ req[1].status = 200
    /\ preUsers(1)[req[1].uid].level = 1
    /\ preUsers(1)[req[1].uid].xp = 80
    /\ users[req[1].uid].total_points = 160
    /\ users[req[1].uid].level = 2

\* C9: updateStreak counts calendar days: a task completed the calendar day
\* after the last activity makes the streak streak + 1, one completed after a gap
\* of more than one calendar day makes it 1.
C9_StreakByCalendarDay ==
    (Done(1, "task") /\ req[1].status = 200) =>
        LET u == req[1].uid
            p == preUsers(1)[u]
            gap == DateOf(now) - DateOf(p.last_activity)
        IN  /\ gap = 1 => users[u].streak = p.streak + 1
            /\ gap > 1 => users[u].streak = 1

\* C10: with requests served one at a time, a task completion whose
\* updateStreak leaves the streak at 7 (30) leaves the user holding Week Warrior
\* (Month Master); no other streak value unlocks either of them; and each of the
\* two bonuses is credited at most once per user.
C10_StreakMilestones ==
    /\ \A u \in UserIds :
           /\ awards[<<u, "achievement", WeekWarrior, 0>>] <= 1
           /\ awards[<<u, "achievement", MonthMaster, 0>>] <= 1
    /\ (Done(1, "task") /\ req[1].status = 200) =>
           LET u == req[1].uid
               n == req[1].newStreak
               ww == <<u, WeekWarrior>>
               mm == <<u, MonthMaster>>
           IN  /\ users[u].streak = n
               /\ user_achievements[ww] = IF n = WeekStreak THEN 1 ELSE preAchievements(1)[ww]
               /\ user_achievements[mm] = IF n = MonthStreak THEN 1 ELSE preAchievements(1)[mm]

\* updateStreak ran again on the day the streak reached 30: the second task of
\* that day finds Month Master held, and its bonus was credited once
C10_Witness ==
    /\ Done(1, "task")
    /\ req[1].status = 200
    /\ req[1].newStreak = MonthStreak
    /\ preAchievements(1)[<<req[1].uid, MonthMaster>>] = 1
    /\ preUsers(1)[req[1].uid].streak = MonthStreak
    /\ awards[<<req[1].uid, "achievement", MonthMaster, 0>>] = 1

\* C11: with requests served one at a time, every webhook is acknowledged with
\* success; message.created adds exactly 10 to the points of the user its
\* external id resolves to and goes on to the message check, post.created adds
\* exactly 50 and goes on to the post check, reaction.added adds exactly 5 and
\* runs no check; member.joined, any other type and any event whose external id
\* resolves to no user leave every table unchanged.
C11_WebhookDispatch ==
    Done(1, "webhook") =>
        LET ev == req[1].ev
            found == {u \in UserIds : preUsers(1)[u].level > 0
                                      /\ preUsers(1)[u].whop = req[1].whop}
            amount == IF ev = "message.created" THEN MessageXP
                      ELSE IF ev = "post.created" THEN PostXP
                      ELSE ReactionXP
            check == IF ev = "message.created" THEN "cm_count"
                     ELSE IF ev = "post.created" THEN "cp_count"
                     ELSE "finish"
        IN  /\ req[1].status = 200
            /\ (ev \in {"message.created", "post.created", "reaction.added"} /\ found # {}) =>
                   LET u == req[1].uid
                   IN  /\ u \in found
                       /\ req[1].ret = check
                       /\ ev = "reaction.added" => req[1].ach = 0
                       /\ req[1].ach = 0 =>
                              /\ users[u].total_points = preUsers(1)[u].total_points + amount
                              /\ user_achievements = preAchievements(1)
                       /\ \A v \in UserIds \ {u} : users[v] = preUsers(1)[v]
                       /\ user_tasks = preTasks(1)
                       /\ user_rewards = preRewards(1)
            /\ (ev \notin {"message.created", "post.created", "reaction.added"} \/ found = {}) =>
                   db = pre[1]

\* a message.created event handled for a registered user
C11_Witness ==
    /\ Done(1, "webhook")
    /\ req[1].ev = "message.created"
    /\ req[1].uid # 0
    /\ req[1].ret = "cm_count"
    /\ users[req[1].uid].total_points = preUsers(1)[req[1].uid].total_points + 10

\* C12: under every interleaving of requests, a step lowers a user's
\* total_points only if it is the deduction of a successful redemption by that
\* user.
C12_PointsDecreaseOnlyOnRedeem ==
    [][\A u \in UserIds :
           users'[u].total_points < users[u].total_points =>
               \E r \in Slots : /\ req[r].kind = "redeem"
                                /\ req[r].uid = u
                                /\ req[r].pc = "rd_deduct"
                                /\ req'[r].pc = "rd_insert"]_vars

\* a finished request of slot 1 that called awardXP exactly once, for user u
SingleAward(u) ==
    /\ req[1].pc = "done"
    /\ req[1].status = 200
    /\ req[1].uid = u
    /\ req[1].ach = 0
    /\ \/ req[1].kind = "task"
       \/ req[1].kind = "webhook" /\ req[1].ev \in Handled

\* C13: with requests served one at a time, the write-back of an awardXP call
\* sets total_points to exactly its value before the call plus the amount,
\* level-up or not, and xp to no more than its value plus the amount (the 1000
\* of the 'level_up' entry is credited to neither); the steps of the call before
\* the write-back leave the users table alone.
C13_AwardAddsExactlyAmount ==
    [][/\ req[1].pc \in {"axp_select", "axp_log"} => users' = users
       /\ req[1].pc = "axp_update" =>
              LET u == req[1].uid
              IN  /\ users'[u].total_points = users[u].total_points + req[1].xp
                  /\ users'[u].xp <= users[u].xp + req[1].xp
                  /\ \A v \in UserIds \ {u} : users'[v] = users[v]]_vars

\* a post.created event whose single awardXP call levelled the user up: the
\* points are 50 above their value before, and one 'level_up' entry was logged
C13_Witness ==
    /\ Done(1, "webhook")
    /\ req[1].ev = "post.created"
    /\ req[1].uid # 0
    /\ req[1].leveledUp
    /\ users[req[1].uid].total_points = preUsers(1)[req[1].uid].total_points + PostXP
    /\ CountLog(req[1].uid, "level_up") > 0

\* C14: with requests served one at a time, an awardXP call that reads (level,
\* xp) writes level + 1 and xp + amount - XPForLevel(level + 1) when xp + amount
\* reaches XPForLevel(level + 1), and level and xp + amount otherwise, never
\* more than one level; a request that makes one call logs one 'level_up' entry
\* exactly when the level rose, and the call's leveledUp flag says the same.
C14_AwardLevelsUpOnce ==
    /\ [](\A u \in UserIds :
              SingleAward(u) =>
                  LET before == preUsers(1)[u]
                      rose == users[u].level > before.level
                  IN  /\ users[u].level \in {before.level, before.level + 1}
                      /\ rose <=> before.xp + req[1].xp >= calculateXPForLevel(before.level + 1)
                      /\ req[1].leveledUp <=> rose
                      /\ SumOver(activity_log, {k \in DOMAIN activity_log :
                                                    k[1] = u /\ k[2] = "level_up"})
                           = SumOver(preLog(1), {k \in DOMAIN preLog(1) :
                                                     k[1] = u /\ k[2] = "level_up"})
                             + (IF rose THEN 1 ELSE 0))
    /\ [][req[1].pc = "axp_update" =>
              LET u == req[1].uid
                  total == users[u].xp + req[1].xp
                  xpNeeded == calculateXPForLevel(users[u].level + 1)
              IN  IF total >= xpNeeded
                  THEN /\ users'[u].level = users[u].level + 1
                       /\ users'[u].xp = total - xpNeeded
                       /\ req[1].leveledUp
                  ELSE /\ users'[u].level = users[u].level
                       /\ users'[u].xp = total
                       /\ ~req[1].leveledUp]_vars

\* a task completion whose single awardXP call took the user up one level
C14_Witness ==
    /\ Done(1, "task")
    /\ SingleAward(req[1].uid)
    /\ req[1].leveledUp
    /\ users[req[1].uid].level = preUsers(1)[req[1].uid].level + 1
    /\ users[req[1].uid].xp = preUsers(1)[req[1].uid].xp + req[1].xp
                              - calculateXPForLevel(users[req[1].uid].level)

\* two finished webhook requests, the only requests so far, that began on the
\* same row of user u and whose awardXP calls both computed their xp from that
\* row (neither saw the other's write), without a level-up
BothReadSameRow(u) ==
    /\ nreq = 2
    /\ \A r \in {1, 2} : /\ Done(r, "webhook")
                         /\ req[r].ev \in Handled
                         /\ req[r].uid = u
                         /\ req[r].ach = 0
                         /\ ~req[r].leveledUp
                         /\ req[r].remainingXP = preUsers(r)[u].xp + req[r].xp
    /\ preUsers(1)[u] = preUsers(2)[u]

\* C15: when two concurrent awardXP calls for one user have both read the same
\* row and both have written back, total_points and xp are that row's values
\* plus the amount of one call only: one of the two awards is lost.
C15_OneAwardLost ==
    \A u \in UserIds :
        BothReadSameRow(u) =>
            \E r \in {1, 2} :
                /\ users[u].total_points = preUsers(1)[u].total_points + req[r].xp
                /\ users[u].xp = preUsers(1)[u].xp + req[r].xp

\* both calls are complete, they awarded 50 and 10 from the same row, and the
\* row holds the 10 alone
C15_Witness ==
    \E u \in UserIds :
        /\ BothReadSameRow(u)
        /\ req[1].xp = PostXP
        /\ req[2].xp = MessageXP
        /\ users[u].total_points = preUsers(1)[u].total_points + MessageXP
        /\ users[u].xp = preUsers(1)[u].xp + MessageXP

====
